---- MODULE Spec2Model ----
(***************************************************************************)
(* Model of mahotas' _morph extension (src/morph/_morph.cpp): binary       *)
(* erosion, grayscale dilation and marker-controlled watershed over dense  *)
(* n-dimensional arrays.                                                   *)
(*                                                                         *)
(* Positions are tuples of coordinates, arrays are functions from the      *)
(* positions of a shape to integers of the element type T.  Widths are     *)
(* scaled: the C++ `int` has IntBits bits, and the element types are an    *)
(* unsigned type as wide as `int` (the uint32 case) and a signed type one  *)
(* bit narrower (the int8/int16 case).                                     *)
(***************************************************************************)
EXTENDS Integers, Sequences, FiniteSets, TLC

VARIABLES
    T,        \* element type of the call: [signed, bits]
    dims,     \* shape of array / res / markers
    bdims,    \* shape of Bc
    array,    \* input array
    Bc,       \* structuring element
    markers,  \* watershed markers
    res,      \* result array (zero-filled by PyArray_FromDims)
    cost,     \* watershed: cost array
    status,   \* watershed: status array
    hqueue,   \* watershed: priority queue, a set of MarkerInfo entries
    idx,      \* watershed: insertion counter
    pc,       \* position of the running call
    written,  \* history: positions of res the call has written
    popped,   \* history: entries popped by the main loop, in pop order
    prevq,    \* history: the queue as it was before the last pop
    pushes,   \* history: number of pushes per position
    writes,   \* history: number of writes of res per position
    array0,   \* erode: the array of the previous call
    res0      \* erode: the result of the previous call

vars == <<T, dims, bdims, array, Bc, markers, res, cost, status, hqueue, idx,
          pc, written, popped, prevq, pushes, writes, array0, res0>>

----------------------------------------------------------------------------
(* Bounds of the model *)

\* width of the C++ `int` (MarkerInfo::cost, MarkerInfo::idx), scaled down
IntBits == 4

\* largest number of seeds (nonzero markers) of a watershed input
MaxSeeds == 2

\* marker labels of the watershed inputs
Labels == {1, 2}

\* element types: [signed, bits]
ElemTypes == {[signed |-> FALSE, bits |-> IntBits],
              [signed |-> TRUE, bits |-> IntBits - 1]}

\* shapes of the erode / dilate inputs, and the Bc shapes tried with each
MorphShapes == {<<3>>, <<2, 2>>}
ErodeBcShapes(d) == IF Len(d) = 1 THEN {<<2>>, <<3>>} ELSE {<<2, 2>>, <<3, 3>>}
DilateBcShapes(d) == IF Len(d) = 1 THEN {<<2>>, <<3>>} ELSE {<<2, 2>>, <<1, 3>>}

\* shapes of the watershed inputs
WatershedShapes == {<<4>>}
WatershedBcShapes(d) == {<<2>>, <<3>>}

----------------------------------------------------------------------------
(* Element types *)

Pow2(n) == 2 ^ n

\* std::numeric_limits<T>::max() and min()
TMax(t) == IF t.signed THEN Pow2(t.bits - 1) - 1 ELSE Pow2(t.bits) - 1
TMin(t) == IF t.signed THEN 0 - Pow2(t.bits - 1) ELSE 0

\* conversion of an integer to type t (modular)
ToT(t, x) ==
    LET m == x % Pow2(t.bits)
    IN IF t.signed /\ m >= Pow2(t.bits - 1) THEN m - Pow2(t.bits) ELSE m

\* conversion of a value to the C++ int (modular)
ToInt(x) == ToT([signed |-> TRUE, bits |-> IntBits], x)

\* intensities of the watershed inputs: the extremes of the type and the
\* value next to the maximum
Values(t) == {TMin(t), TMax(t) - 1, TMax(t)}

----------------------------------------------------------------------------
(* Positions and arrays (array.hpp) *)

RECURSIVE AllPos(_)
AllPos(d) ==
    IF d = <<>> THEN {<<>>}
    ELSE {<<a>> \o q : a \in 0..(Head(d) - 1), q \in AllPos(Tail(d))}

RECURSIVE Size(_)
Size(d) == IF d = <<>> THEN 1 ELSE Head(d) * Size(Tail(d))

\* the position an iterator is at after i increments (row-major order)
RECURSIVE PosAt(_, _)
PosAt(i, d) ==
    IF d = <<>> THEN <<>>
    ELSE PosAt(i \div d[Len(d)], SubSeq(d, 1, Len(d) - 1)) \o <<i % d[Len(d)]>>

PosAdd(p, q) == [k \in 1..Len(p) |-> p[k] + q[k]]
PosSub(p, q) == [k \in 1..Len(p) |-> p[k] - q[k]]

ValidPosition(d, p) == \A k \in 1..Len(d) : 0 <= p[k] /\ p[k] < d[k]

Zeros(d) == [p \in AllPos(d) |-> 0]

----------------------------------------------------------------------------
(* Structuring-element geometry *)

\* variant: the centre of an even extent rounded down to the lower middle cell
central_position_lower(bd) == [k \in 1..Len(bd) |-> (bd[k] - 1) \div 2]

central_position(bd) == [k \in 1..Len(bd) |-> bd[k] \div 2]

\* npos = pos + startc.position() - centre
Neighbour(p, c) == PosSub(PosAdd(p, c), central_position(bdims))

----------------------------------------------------------------------------
(* erode *)

\* variant: the test of the neighbour's value without its negation
RECURSIVE ErodeScanNoNegation(_, _)
ErodeScanNoNegation(p, j) ==
    IF j = Size(bdims) THEN TRUE
    ELSE LET c == PosAt(j, bdims)
             npos == Neighbour(p, c)
         IN IF Bc[c] # 0 /\ ValidPosition(dims, npos) /\ array[npos] # 0
            THEN FALSE
            ELSE ErodeScanNoNegation(p, j + 1)

\* the inner loop of erode from Bc cell j on: the value of `on` it ends with
RECURSIVE ErodeScan(_, _)
ErodeScan(p, j) ==
    IF j = Size(bdims) THEN TRUE
    ELSE LET c == PosAt(j, bdims)
             npos == Neighbour(p, c)
         IN IF Bc[c] # 0 /\ ValidPosition(dims, npos) /\ array[npos] = 0
            THEN FALSE
            ELSE ErodeScan(p, j + 1)

\* *rpos = on: a bool converted to T
BoolToT(on) == IF on THEN 1 ELSE 0

\* the outer loop of erode from iteration i on; r is [res, written]
RECURSIVE ErodeLoop(_, _)
ErodeLoop(i, r) ==
    IF i = Size(dims) THEN r
    ELSE LET rpos == PosAt(i, dims)
         IN ErodeLoop(i + 1,
                [res |-> [r.res EXCEPT ![rpos] = BoolToT(ErodeScan(rpos, 0))],
                 written |-> r.written \cup {rpos}])

Unused == <<markers, cost, status, hqueue, idx, popped, prevq, pushes, writes>>

ErodeInit ==
    /\ T \in ElemTypes
    /\ dims \in MorphShapes
    /\ bdims \in ErodeBcShapes(dims)
    /\ array \in [AllPos(dims) -> {0, 1, TMax(T)}]
    /\ Bc \in [AllPos(bdims) -> {0, 1}]
    /\ res = Zeros(dims)
    /\ written = {}
    /\ pc = "call"
    /\ array0 = <<>>
    /\ res0 = <<>>
    /\ markers = <<>> /\ cost = <<>> /\ status = <<>> /\ hqueue = {}
    /\ idx = 0 /\ popped = <<>> /\ prevq = {} /\ pushes = <<>> /\ writes = <<>>

\* py_erode: one call of erode on a fresh result array
Erode ==
    /\ pc = "call"
    /\ \E r \in {ErodeLoop(0, [res |-> res, written |-> {}])} :
          /\ res' = r.res
          /\ written' = r.written
    /\ pc' = "done"
    /\ UNCHANGED <<T, dims, bdims, array, Bc, array0, res0>>
    /\ UNCHANGED Unused

BooleanValued(a) == \A p \in DOMAIN a : a[p] \in {0, 1}

\* the caller turns one background element on and calls erode again
FlipAndCallAgain ==
    /\ pc = "done"
    /\ array0 = <<>>
    /\ BooleanValued(array)
    /\ \E p \in AllPos(dims) :
          /\ array[p] = 0
          /\ array' = [array EXCEPT ![p] = 1]
    /\ array0' = array
    /\ res0' = res
    /\ res' = Zeros(dims)
    /\ written' = {}
    /\ pc' = "call"
    /\ UNCHANGED <<T, dims, bdims, Bc>>
    /\ UNCHANGED Unused

ErodeNext == Erode \/ FlipAndCallAgain

ErodeSpec == ErodeInit /\ [][ErodeNext]_vars

(* Claims about erode *)

\* whether n lies inside a shape d, stated on the coordinates
Inside(n, d) == \A k \in 1..Len(d) : n[k] \in 0..(d[k] - 1)

\* the cell p + c - centre, with centre[k] = extent_k \div 2
Target(p, c) == [k \in 1..Len(p) |-> p[k] + c[k] - (bdims[k] \div 2)]

\* p has an active Bc cell whose neighbour is inside the array and zero in a
HasZeroNeighbour(a, p) ==
    \E c \in AllPos(bdims) :
        Bc[c] # 0 /\ Inside(Target(p, c), dims) /\ a[Target(p, c)] = 0

\* C4: when erode returns, every position p of res has been written, and
\* res[p] = 1 if no active Bc cell c has p + c - centre inside the array with a
\* zero element there, res[p] = 0 otherwise (centre = extent \div 2, also for
\* even extents; cells that fall outside the array never turn p off).
C4_ErodePointwise ==
    pc = "done" =>
        /\ written = AllPos(dims)
        /\ \A p \in AllPos(dims) :
              res[p] = IF HasZeroNeighbour(array, p) THEN 0 ELSE 1

\* an erosion with an even extent in Bc, where some position stays on although
\* one of its active cells falls outside the array, and some position is off
C4_Witness ==
    /\ pc = "done"
    /\ \E k \in 1..Len(bdims) : bdims[k] % 2 = 0
    /\ \E p \in AllPos(dims) :
          /\ res[p] = 1
          /\ \E c \in AllPos(bdims) : Bc[c] # 0 /\ ~Inside(Target(p, c), dims)
    /\ \E q \in AllPos(dims) : res[q] = 0

\* C7: for a boolean-valued array a and a' = a with one background element
\* turned on, erode(a', Bc) >= erode(a, Bc) at every position, and every
\* position that is off in erode(a, Bc) and on in erode(a', Bc) has all of its
\* in-bounds active neighbours nonzero in a'.
C7_ErodeMonotone ==
    (pc = "done" /\ array0 # <<>>) =>
        \A p \in AllPos(dims) :
            /\ res[p] >= res0[p]
            /\ (res0[p] = 0 /\ res[p] = 1) =>
                  \A c \in AllPos(bdims) :
                      (Bc[c] # 0 /\ Inside(Target(p, c), dims))
                          => array[Target(p, c)] # 0

\* the second erosion turned on a position that the first left off, and left
\* another position off
C7_Witness ==
    /\ pc = "done"
    /\ array0 # <<>>
    /\ \E p \in AllPos(dims) : res0[p] = 0 /\ res[p] = 1
    /\ \E q \in AllPos(dims) : res0[q] = 0 /\ res[q] = 0

----------------------------------------------------------------------------
(* dilate *)

\* *pos + *startc stored into an element of type T
TAdd(t, a, b) == ToT(t, a + b)

\* variant: the store keeps the larger of the old and the new value
DilateStoreMax(r, npos, v) ==
    [r EXCEPT ![npos] = IF @ > v THEN @ ELSE v]

\* res.at(npos) = *pos + *startc
DilateStore(r, npos, v) == [r EXCEPT ![npos] = v]

\* the inner loop of dilate for source p, from Bc cell j on
RECURSIVE DilateScan(_, _, _)
DilateScan(p, j, r) ==
    IF j = Size(bdims) THEN r
    ELSE LET c == PosAt(j, bdims)
             npos == Neighbour(p, c)
         IN DilateScan(p, j + 1,
                IF Bc[c] # 0 /\ ValidPosition(dims, npos)
                THEN DilateStore(r, npos, TAdd(T, array[p], Bc[c]))
                ELSE r)

\* the outer loop of dilate from iteration i on
RECURSIVE DilateLoop(_, _)
DilateLoop(i, r) ==
    IF i = Size(dims) THEN r
    ELSE LET pos == PosAt(i, dims)
         IN DilateLoop(i + 1, IF array[pos] # 0 THEN DilateScan(pos, 0, r) ELSE r)

DilateInit ==
    /\ T \in ElemTypes
    /\ dims \in MorphShapes
    /\ bdims \in DilateBcShapes(dims)
    /\ array \in [AllPos(dims) -> {0, 1, 2, TMax(T)}]
    /\ Bc \in [AllPos(bdims) -> {0, 1, TMax(T)}]
    /\ res = Zeros(dims)
    /\ written = {}
    /\ pc = "call"
    /\ array0 = <<>>
    /\ res0 = <<>>
    /\ markers = <<>> /\ cost = <<>> /\ status = <<>> /\ hqueue = {}
    /\ idx = 0 /\ popped = <<>> /\ prevq = {} /\ pushes = <<>> /\ writes = <<>>

\* py_dilate: one call of dilate on a fresh (zero-filled) result array
Dilate ==
    /\ pc = "call"
    /\ res' = DilateLoop(0, res)
    /\ pc' = "done"
    /\ UNCHANGED <<T, dims, bdims, array, Bc, array0, res0, written>>
    /\ UNCHANGED Unused

\* py_dilate returns the result to the caller
DilateReturn ==
    /\ pc = "done"
    /\ pc' = "returned"
    /\ UNCHANGED <<T, dims, bdims, array, Bc, res, array0, res0, written>>
    /\ UNCHANGED Unused

DilateNext == Dilate \/ DilateReturn

DilateSpec == DilateInit /\ [][DilateNext]_vars

(* Claims about dilate *)

\* the (source, cell) pairs, as scan indices <<i, j>>, that write position n
Writers(n) ==
    {w \in (0..(Size(dims) - 1)) \X (0..(Size(bdims) - 1)) :
        /\ array[PosAt(w[1], dims)] # 0
        /\ Bc[PosAt(w[2], bdims)] # 0
        /\ Target(PosAt(w[1], dims), PosAt(w[2], bdims)) = n}

\* scan order: sources in row-major order, for each source the cells in
\* row-major order
ScanBefore(v, w) == v[1] < w[1] \/ (v[1] = w[1] /\ v[2] < w[2])

LastWriter(n) ==
    CHOOSE w \in Writers(n) : \A v \in Writers(n) \ {w} : ScanBefore(v, w)

\* the value pair w writes: array[p] + Bc[c] in the element type
Written(w) ==
    LET s == array[PosAt(w[1], dims)] + Bc[PosAt(w[2], bdims)]
        m == s % (2 ^ T.bits)
    IN IF T.signed /\ m >= 2 ^ (T.bits - 1) THEN m - 2 ^ T.bits ELSE m

\* C5: after dilate, each position n holds array[p] + Bc[c] (in the element
\* type) of the last pair (p, c) in scan order with array[p] # 0, Bc[c] # 0
\* and p + c - centre = n, and 0 if there is no such pair.
C5_DilateLastWriter ==
    pc # "call" =>
        \A n \in AllPos(dims) :
            res[n] = IF Writers(n) = {} THEN 0 ELSE Written(LastWriter(n))

\* a dilation where some position holds less than the largest value written
\* to it, some position was never written, and some target fell outside
C5_Witness ==
    /\ pc = "done"
    /\ \E n \in AllPos(dims) : \E w \in Writers(n) : Written(w) > res[n]
    /\ \E n \in AllPos(dims) : Writers(n) = {} /\ res[n] = 0
    /\ \E p \in AllPos(dims) : \E c \in AllPos(bdims) :
          array[p] # 0 /\ Bc[c] # 0 /\ ~Inside(Target(p, c), dims)

\* C6: with a flat structuring element (all weights 0), dilate(array, Bc)[n]
\* >= array[n] at every position n = p + o touched by a foreground source p
\* under an offset o of Bc.
C6_DilateExtensive ==
    (pc # "call" /\ \A c \in AllPos(bdims) : Bc[c] = 0) =>
        \A p \in AllPos(dims) : \A c \in AllPos(bdims) :
            (array[p] # 0 /\ Inside(Target(p, c), dims))
                => res[Target(p, c)] >= array[Target(p, c)]

----------------------------------------------------------------------------
(* cwatershed *)

\* MarkerInfo(cost, idx, pos): cost and idx are C++ ints, the cost argument
\* is a value of type T converted to int
MarkerInfo(c, i, pos) == [cost |-> ToInt(c), idx |-> i, pos |-> pos]

\* MarkerInfo::operator<
Less(a, b) == IF a.cost = b.cost THEN a.idx > b.idx ELSE a.cost > b.cost

\* hqueue.top(): the largest entry under operator<
Top(q) == CHOOSE e \in q : \A f \in q : ~Less(e, f)

\* variant: the cost of a seed is left at the type's maximum
SeedCostUnset(p) == TMax(T)

\* cost.at(mpos.position()) = array.at(mpos.position())
SeedCost(p) == array[p]

\* variant: a neighbour is taken again when its cost is matched
ImprovesOrEqual(ncost, c) == ncost <= c

\* ncost < cost.at(npos)
Improves(ncost, c) == ncost < c

\* variant: the popped position is not marked
SettleNothing(st, pos) == st

\* status.at(pos) = true
Settle(st, pos) == [st EXCEPT ![pos] = TRUE]

\* hqueue.push(MarkerInfo(v, idx++, pos)) on the loop state w
Push(w, v, pos) ==
    [w EXCEPT !.hqueue = @ \cup {MarkerInfo(v, w.idx, pos)},
              !.idx = @ + 1,
              !.pushes[pos] = @ + 1]

\* res.at(pos) = v on the loop state w
SetRes(w, pos, v) == [w EXCEPT !.res[pos] = v, !.writes[pos] = @ + 1]

\* the marker loop from iteration i on
RECURSIVE SeedLoop(_, _)
SeedLoop(i, w) ==
    IF i = Size(dims) THEN w
    ELSE LET mpos == PosAt(i, dims)
         IN SeedLoop(i + 1,
                IF markers[mpos] # 0
                THEN [SetRes(Push(w, markers[mpos], mpos), mpos, markers[mpos])
                         EXCEPT !.cost[mpos] = SeedCost(mpos)]
                ELSE w)

\* the neighbour loop of the popped position pos, from Bc cell j on; st is
\* the status array
RECURSIVE FloodScan(_, _, _, _)
FloodScan(pos, j, st, w) ==
    IF j = Size(bdims) THEN w
    ELSE LET c == PosAt(j, bdims)
             npos == Neighbour(pos, c)
         IN FloodScan(pos, j + 1, st,
                IF /\ Bc[c] # 0
                   /\ ValidPosition(dims, npos)
                   /\ ~st[npos]
                   /\ Improves(array[npos], w.cost[npos])
                THEN Push(SetRes([w EXCEPT !.cost[npos] = array[npos]],
                                 npos, w.res[pos]),
                          array[npos], npos)
                ELSE w)

LoopState == [res |-> res, cost |-> cost, hqueue |-> hqueue, idx |-> idx,
              pushes |-> pushes, writes |-> writes]

SeedCount(m) == Cardinality({p \in DOMAIN m : m[p] # 0})

WatershedInit ==
    /\ T \in ElemTypes
    /\ dims \in WatershedShapes
    /\ bdims \in WatershedBcShapes(dims)
    /\ array \in [AllPos(dims) -> Values(T)]
    /\ markers \in {m \in [AllPos(dims) -> {0} \cup Labels] : SeedCount(m) <= MaxSeeds}
    /\ Bc \in [AllPos(bdims) -> {0, 1}]
    /\ res = Zeros(dims)
    /\ cost = [p \in AllPos(dims) |-> TMax(T)]
    /\ status = [p \in AllPos(dims) |-> FALSE]
    /\ hqueue = {}
    /\ idx = 0
    /\ pc = "seed"
    /\ popped = <<>>
    /\ prevq = {}
    /\ pushes = Zeros(dims)
    /\ writes = Zeros(dims)
    /\ written = {} /\ array0 = <<>> /\ res0 = <<>>

Inputs == <<T, dims, bdims, array, Bc, markers, written, array0, res0>>

\* the marker loop: every seed is labelled, costed and pushed
SeedMarkers ==
    /\ pc = "seed"
    /\ \E w \in {SeedLoop(0, LoopState)} :
          /\ res' = w.res
          /\ cost' = w.cost
          /\ hqueue' = w.hqueue
          /\ idx' = w.idx
          /\ pushes' = w.pushes
          /\ writes' = w.writes
    /\ pc' = "flood"
    /\ UNCHANGED <<status, popped, prevq>>
    /\ UNCHANGED Inputs

\* one iteration of the main loop: pop the top entry, settle its position
\* and expand its neighbours
FloodStep ==
    /\ pc = "flood"
    /\ hqueue # {}
    /\ \E e \in {Top(hqueue)} :
       \E st \in {Settle(status, e.pos)} :
       \E w \in {FloodScan(e.pos, 0, st,
                           [LoopState EXCEPT !.hqueue = hqueue \ {e}])} :
          /\ status' = st
          /\ res' = w.res
          /\ cost' = w.cost
          /\ hqueue' = w.hqueue
          /\ idx' = w.idx
          /\ pushes' = w.pushes
          /\ writes' = w.writes
          /\ popped' = Append(popped, e)
    /\ prevq' = hqueue
    /\ pc' = "flood"
    /\ UNCHANGED Inputs

\* the main loop ends on an empty queue
FloodEnd ==
    /\ pc = "flood"
    /\ hqueue = {}
    /\ pc' = "done"
    /\ UNCHANGED <<res, cost, status, hqueue, idx, popped, prevq, pushes, writes>>
    /\ UNCHANGED Inputs

WatershedNext == SeedMarkers \/ FloodStep \/ FloodEnd

WatershedSpec == WatershedInit /\ [][WatershedNext]_vars

\* the call runs to completion: no suspension points (single-threaded)
WatershedFairSpec == WatershedSpec /\ WF_vars(WatershedNext)

(* Claims about cwatershed *)

Seeds == {p \in AllPos(dims) : markers[p] # 0}

\* n = p + o for an active Bc offset o
Step(p, n) == \E c \in AllPos(bdims) : Bc[c] # 0 /\ Target(p, c) = n

\* the indices (in pop order) of the popped positions that have n as neighbour
Fronts(n) == {k \in 1..Len(popped) : Step(popped[k].pos, n)}

\* the pop index of position p, 0 if it was not popped
PopIndex(p) ==
    IF \E k \in 1..Len(popped) : popped[k].pos = p
    THEN CHOOSE k \in 1..Len(popped) : popped[k].pos = p
    ELSE 0

\* C1: after the marker loop and at termination, result[p] = markers[p] for
\* every seed p: no neighbour expansion overwrites the label of a seed.
C1_SeedPreserved ==
    pc \in {"flood", "done"} =>
        \A p \in Seeds : res[p] = markers[p] /\ writes[p] = 1

\* a finished flood in which a front with another label was expanded next to
\* a seed that was still in the queue and whose intensity is below the maximum
C1_Witness ==
    /\ pc = "done"
    /\ \E p \in Seeds : \E k \in Fronts(p) :
          /\ k < PopIndex(p)
          /\ res[popped[k].pos] # markers[p]
          /\ array[p] < TMax(T)

\* the positions reachable from S by in-bounds steps along active offsets
RECURSIVE Reachable(_)
Reachable(S) ==
    LET S2 == S \cup {n \in AllPos(dims) : \E p \in S : Step(p, n)}
    IN IF S2 = S THEN S ELSE Reachable(S2)

\* C2: at termination every position reachable from a seed has a nonzero
\* label and every other position has result 0.
C2_Coverage ==
    pc = "done" =>
        \A p \in AllPos(dims) : (p \in Reachable(Seeds)) <=> (res[p] # 0)

\* the popped neighbour of n whose queue entry has the smallest
\* (priority, insertion index) pair
LowestFront(n) ==
    CHOOSE k \in Fronts(n) : \A j \in Fronts(n) :
        \/ popped[k].cost < popped[j].cost
        \/ (popped[k].cost = popped[j].cost /\ popped[k].idx <= popped[j].idx)

\* the popped neighbour of n that was popped first
FirstFront(n) == CHOOSE k \in Fronts(n) : \A j \in Fronts(n) : k <= j

Labelled == {n \in AllPos(dims) : markers[n] = 0 /\ res[n] # 0}

\* C3 (as claimed): at termination the label of every labelled non-seed n is
\* the label of the popped neighbour whose queue entry has the smallest
\* (priority, insertion index) pair.
C3_LowestPriorityFront ==
    pc = "done" => \A n \in Labelled : res[n] = res[popped[LowestFront(n)].pos]

\* C3 (amended): at termination the label of every labelled non-seed n is the
\* label of the neighbour of n that was popped first.
C3_FirstPoppedFront ==
    pc = "done" => \A n \in Labelled : res[n] = res[popped[FirstFront(n)].pos]

\* a finished flood with a position whose first-popped neighbour and
\* lowest-priority neighbour carry different labels
C3_Witness ==
    /\ pc = "done"
    /\ \E n \in Labelled :
          res[popped[FirstFront(n)].pos] # res[popped[LowestFront(n)].pos]

\* the value of type T that the entry of a position is pushed with
PushedValue(e) == IF markers[e.pos] # 0 THEN markers[e.pos] ELSE array[e.pos]

\* C8: every queued entry stores its pushed value of type T as priority,
\* insertion indices are strictly increasing, and every pop takes the queued
\* entry with the smallest (priority, insertion index).
C8_PopOrder ==
    /\ \A e \in hqueue : e.cost = PushedValue(e) /\ e.idx < idx
    /\ \A e, f \in hqueue : e # f => e.idx # f.idx
    /\ popped # <<>> =>
          LET e == popped[Len(popped)]
          IN /\ e \in prevq
             /\ \A f \in prevq :
                   \/ PushedValue(e) < PushedValue(f)
                   \/ (PushedValue(e) = PushedValue(f) /\ e.idx <= f.idx)

\* every position is pushed, popped and written at most once
C9_Bounded ==
    /\ \A p \in AllPos(dims) :
          /\ pushes[p] <= 1
          /\ writes[p] <= 1
          /\ Cardinality({k \in 1..Len(popped) : popped[k].pos = p}) <= 1
    /\ Len(popped) <= Size(dims)

\* C9: every position is pushed at most once, popped at most once and its
\* result written at most once, there are at most N pops, and the main loop
\* eventually ends on an empty queue.
C9_BoundedWork == [] C9_Bounded /\ <>(pc = "done" /\ hqueue = {})

\* a finished flood that popped every position and in which a non-seed was
\* reached by two fronts before it was popped
C9_Witness ==
    /\ pc = "done"
    /\ Len(popped) = Size(dims)
    /\ \E n \in Labelled : \E j, k \in Fronts(n) : j < k /\ k < PopIndex(n)

\* the positions linked to a seed labelled l by steps through positions
\* labelled l
RECURSIVE Region(_, _)
Region(l, S) ==
    LET S2 == S \cup {n \in AllPos(dims) : res[n] = l /\ \E p \in S : Step(p, n)}
    IN IF S2 = S THEN S ELSE Region(l, S2)

C10_Parent ==
    \A n \in Labelled :
        \E p \in AllPos(dims) : Step(p, n) /\ status[p] /\ res[p] = res[n]

C10_Final ==
    pc = "done" =>
        \A n \in AllPos(dims) :
            res[n] # 0 => n \in Region(res[n], {p \in Seeds : markers[p] = res[n]})

C10_Frozen ==
    \A p \in AllPos(dims) :
        status[p] => (res'[p] = res[p] /\ cost'[p] = cost[p])

\* C10: in every state each labelled non-seed has a settled neighbour
\* carrying its label; at termination each labelled position is linked to a
\* seed of its label through positions of that label; once status[p] is
\* true, result[p] and cost[p] never change.
C10_SeedRegions == [] (C10_Parent /\ C10_Final) /\ [][C10_Frozen]_vars

\* a finished flood with two labels, and a labelled position that no seed of
\* its label touches
C10_Witness ==
    /\ pc = "done"
    /\ \E p, q \in Seeds : markers[p] # markers[q]
    /\ \E n \in Labelled :
          \A p \in Seeds : ~(Step(p, n) /\ markers[p] = res[n])

====
